---- MODULE Spec2Model ----
(***************************************************************************)
(* Model of generateScrollingScriptVideo (src/src/videoGenerator.ts):      *)
(* text layout and segmentation, duration allocation, the scroll           *)
(* expression handed to ffmpeg, and the temp-file lifecycle of one         *)
(* invocation (Spec) and of two concurrent invocations (SpecTwo); of the   *)
(* POST /api/generate handler with its background processing (SpecRoute,   *)
(* src/src/weaveit-generator/generateRoute.ts); and of the temp files of   *)
(* generateNarrativeVideoBuffer (SpecNarrative).                           *)
(*                                                                         *)
(* Numbers are exact rationals [n, d] (d > 0), with d = 0 standing for the *)
(* IEEE NaN that JavaScript produces for 0/0.  Rounding of binary floats   *)
(* is not modelled.  A script is a sequence of one-character strings.      *)
(***************************************************************************)
EXTENDS Integers, Sequences, FiniteSets, TLC

\* one invocation
VARIABLES script, pc, wrappedLines, sections, totalHeight, files,
          duration, timeline, encoderCalls, running, db, raised, result

\* two concurrent invocations sharing /tmp
VARIABLES jobs, ipc, tmp, clash

invocationVars == <<script, pc, wrappedLines, sections, totalHeight, files,
                    duration, timeline, encoderCalls, running, db, raised, result>>

\* POST /api/generate and its background processing
VARIABLES req, rpc, balance, jobStatus, storedVideo, response, notices, scheduled

\* one call of generateNarrativeVideoBuffer
VARIABLES scenes, npc, nfiles, frameIndex, sceneNo

concurrentVars == <<jobs, ipc, tmp, clash>>

routeVars == <<req, rpc, balance, jobStatus, storedVideo, response, notices, scheduled>>

narrativeVars == <<scenes, npc, nfiles, frameIndex, sceneNo>>

vars == <<invocationVars, concurrentVars, routeVars, narrativeVars>>

(* ------------------------------ bounds --------------------------------- *)

\* longest script, counted in chunks of Chunks
MaxChunks == 4

\* longest probed audio duration, in seconds
MaxAudio == 8

\* number of glyphs that fit into one wrapped line
CharsPerLine == 2

\* number of equal steps of [0, audioDuration] at which the scroll position is sampled
GridSteps == 4

\* largest credit balance of the requesting user
MaxCredits == 5

\* largest number of scenes of a narrative, and of frames of one scene
MaxScenes == 3
MaxFrames == 2

(* --------------------------- rational numbers -------------------------- *)

RECURSIVE GCD(_, _)
GCD(a, b) == IF b = 0 THEN a ELSE GCD(b, a % b)

Abs(x) == IF x < 0 THEN -x ELSE x

NaN == [n |-> 0, d |-> 0]

IsNaN(x) == x.d = 0

R(n, d) ==
  IF d = 0 THEN NaN
  ELSE LET s == IF d < 0 THEN -1 ELSE 1
           g == GCD(Abs(n), Abs(d))
       IN  [n |-> (s * n) \div g, d |-> (s * d) \div g]

RInt(i) == [n |-> i, d |-> 1]

RAdd(a, b) == IF IsNaN(a) \/ IsNaN(b) THEN NaN
              ELSE R(a.n * b.d + b.n * a.d, a.d * b.d)

RSub(a, b) == IF IsNaN(a) \/ IsNaN(b) THEN NaN
              ELSE R(a.n * b.d - b.n * a.d, a.d * b.d)

RMul(a, b) == IF IsNaN(a) \/ IsNaN(b) THEN NaN
              ELSE R(a.n * b.n, a.d * b.d)

\* 0/0 is NaN; x/0 with x # 0 (an infinity) is never evaluated by the modelled code
RDiv(a, b) == IF IsNaN(a) \/ IsNaN(b) THEN NaN
              ELSE R(a.n * b.d, a.d * b.n)

\* comparisons involving NaN are false, as in IEEE arithmetic
RLt(a, b) == ~IsNaN(a) /\ ~IsNaN(b) /\ a.n * b.d < b.n * a.d

RLe(a, b) == ~IsNaN(a) /\ ~IsNaN(b) /\ a.n * b.d <= b.n * a.d

REq(a, b) == ~IsNaN(a) /\ ~IsNaN(b) /\ a.n * b.d = b.n * a.d

(* ------------------------- geometry constants -------------------------- *)

width == 1280
height == 720
paddingX == 80
paddingY == 60
fontSize == 28
\* lineSpacing = 1.8
lineSpacing == R(18, 10)
initialDelay == 6
\* speedFactor = 0.7
speedFactor == R(7, 10)

lineHeight == RMul(RInt(fontSize), lineSpacing)

(* ------------------------------ strings -------------------------------- *)

NL == "\n"
SP == " "

\* the pieces scripts are built from: two words, a bracket, a space, a newline
Chunks == { <<"a">>, <<"l", "e", "t">>, <<"(">>, <<SP>>, <<NL>> }

RECURSIVE ScriptsOf(_)
ScriptsOf(k) ==
  IF k = 0 THEN { <<>> }
  ELSE LET prev == ScriptsOf(k - 1)
       IN  prev \cup { s \o c : s \in prev, c \in Chunks }

Scripts == ScriptsOf(MaxChunks)

\* \s of the regular expressions, over the alphabet of Chunks
IsSpace(c) == c \in {SP, NL}

\* \w of the regular expressions, over the alphabet of Chunks
IsWordChar(c) == c \in {"a", "l", "e", "t"}

\* line.trim() === ""
IsBlank(line) == \A i \in 1..Len(line) : IsSpace(line[i])

\* end of the match of /\n\s*\n/ that starts at i, 0 when there is none:
\* \s* is greedy, so the match ends at the last newline of the whitespace run
MatchEnd(s, i) ==
  IF s[i] # NL THEN 0
  ELSE LET cand == { j \in (i + 1)..Len(s) :
                       /\ s[j] = NL
                       /\ \A k \in (i + 1)..j : IsSpace(s[k]) }
       IN  IF cand = {} THEN 0
           ELSE CHOOSE j \in cand : \A k \in cand : k <= j

\* script.split(/\n\s*\n/)
RECURSIVE SplitParagraphs(_)
SplitParagraphs(s) ==
  LET starts == { i \in 1..Len(s) : MatchEnd(s, i) # 0 }
  IN  IF starts = {} THEN << s >>
      ELSE LET i == CHOOSE x \in starts : \A y \in starts : x <= y
               j == MatchEnd(s, i)
           IN  << SubSeq(s, 1, i - 1) >> \o SplitParagraphs(SubSeq(s, j + 1, Len(s)))

\* s.split(c) for a one-character separator
RECURSIVE SplitOn(_, _)
SplitOn(s, c) ==
  LET at == { i \in 1..Len(s) : s[i] = c }
  IN  IF at = {} THEN << s >>
      ELSE LET i == CHOOSE x \in at : \A y \in at : x <= y
           IN  << SubSeq(s, 1, i - 1) >> \o SplitOn(SubSeq(s, i + 1, Len(s)), c)

\* width - paddingX * 2
drawableWidth == width - paddingX * 2

\* ctx.measureText(text).width for a fixed-pitch font of which exactly
\* CharsPerLine glyphs fit into the drawable width
measureText(text) == (drawableWidth \div CharsPerLine) * Len(text)

(* ------------------- 1. text wrapping and segmentation ------------------ *)

RECURSIVE SumLen(_)
SumLen(words) == IF words = <<>> THEN 0 ELSE Len(Head(words)) + SumLen(Tail(words))

\* /[(){}\[\]<>]/.test(line)
hasCode(line) ==
  \E i \in 1..Len(line) : line[i] \in {"(", ")", "{", "}", "[", "]", "<", ">"}

Keywords ==
  { <<"f","u","n","c","t","i","o","n">>, <<"c","l","a","s","s">>,
    <<"c","o","n","s","t">>, <<"l","e","t">>, <<"v","a","r">>,
    <<"i","m","p","o","r","t">>, <<"e","x","p","o","r","t">>,
    <<"a","s","y","n","c">>, <<"a","w","a","i","t">> }

\* /\b(function|class|const|let|var|import|export|async|await)\b/.test(line)
hasTech(line) ==
  \E kw \in Keywords : \E i \in 1..Len(line) :
    /\ i + Len(kw) - 1 <= Len(line)
    /\ SubSeq(line, i, i + Len(kw) - 1) = kw
    /\ (i = 1 \/ ~IsWordChar(line[i - 1]))
    /\ (i + Len(kw) > Len(line) \/ ~IsWordChar(line[i + Len(kw)]))

\* avgWordLength * (hasCode ? 1.5 : 1) * (hasTech ? 1.3 : 1)
lineComplexity(line) ==
  LET words == SplitOn(line, SP)
      avgWordLength == R(SumLen(words), Len(words))
  IN  RMul(RMul(avgWordLength, IF hasCode(line) THEN R(15, 10) ELSE RInt(1)),
           IF hasTech(line) THEN R(13, 10) ELSE RInt(1))

\* greedy packing that starts the new line with the rejected text instead of the word
RECURSIVE WrapWordsKeepTest(_, _)
WrapWordsKeepTest(words, st) ==
  IF words = <<>> THEN st
  ELSE LET w == Head(words)
           test == IF st.buf # <<>> THEN st.buf \o <<SP>> \o w ELSE w
       IN  IF measureText(test) <= drawableWidth
           THEN WrapWordsKeepTest(Tail(words), [buf |-> test, out |-> st.out])
           ELSE WrapWordsKeepTest(Tail(words), [buf |-> test, out |-> Append(st.out, st.buf)])

\* words.forEach((w) => ...): greedy packing; st = [buf, out]
RECURSIVE WrapWords(_, _)
WrapWords(words, st) ==
  IF words = <<>> THEN st
  ELSE LET w == Head(words)
           test == IF st.buf # <<>> THEN st.buf \o <<SP>> \o w ELSE w
       IN  IF measureText(test) <= drawableWidth
           THEN WrapWords(Tail(words), [buf |-> test, out |-> st.out])
           ELSE WrapWords(Tail(words), [buf |-> w, out |-> Append(st.out, st.buf)])

\* the wrap without the push of the last buffer
WrapLineNoFlush(line) ==
  WrapWords(SplitOn(line, SP), [buf |-> <<>>, out |-> <<>>]).out

\* the wrapped lines pushed for one non-blank source line
WrapLine(line) ==
  LET st == WrapWords(SplitOn(line, SP), [buf |-> <<>>, out |-> <<>>])
  IN  Append(st.out, st.buf)

\* lines.forEach((line) => ...); st = [wrappedLines, currentLine, complexityScore]
RECURSIVE LayoutLines(_, _)
LayoutLines(lines, st) ==
  IF lines = <<>> THEN st
  ELSE LET line == Head(lines)
       IN  IF IsBlank(line)
           THEN LayoutLines(Tail(lines),
                  [st EXCEPT !.wrappedLines = Append(@, <<>>),
                             !.currentLine = @ + 1])
           ELSE LET wl == WrapLine(line)
                IN  LayoutLines(Tail(lines),
                      [wrappedLines |-> st.wrappedLines \o wl,
                       currentLine |-> st.currentLine + Len(wl),
                       complexityScore |-> RAdd(st.complexityScore, lineComplexity(line))])

\* one iteration of paragraphs.forEach((paragraph, pIndex) => ...);
\* pIndex counts from 0, n = paragraphs.length, st = [wrappedLines, sections, currentLine]
LayoutParagraph(paragraph, pIndex, n, st) ==
  LET sectionStart == st.currentLine
      lead == IF pIndex > 0
              THEN [wrappedLines |-> Append(st.wrappedLines, <<>>),
                    currentLine |-> st.currentLine + 1]
              ELSE [wrappedLines |-> st.wrappedLines, currentLine |-> st.currentLine]
      body == LayoutLines(SplitOn(paragraph, NL),
                [wrappedLines |-> lead.wrappedLines,
                 currentLine |-> lead.currentLine,
                 complexityScore |-> RInt(0)])
      secs == Append(st.sections,
                [startLine |-> sectionStart,
                 endLine |-> body.currentLine - 1,
                 complexity |-> body.complexityScore])
  IN  IF pIndex < n - 1
      THEN [wrappedLines |-> Append(body.wrappedLines, <<>>),
            sections |-> secs,
            currentLine |-> body.currentLine + 1]
      ELSE [wrappedLines |-> body.wrappedLines,
            sections |-> secs,
            currentLine |-> body.currentLine]

RECURSIVE LayoutFrom(_, _, _)
LayoutFrom(paragraphs, pIndex, st) ==
  IF pIndex >= Len(paragraphs) THEN st
  ELSE LayoutFrom(paragraphs, pIndex + 1,
         LayoutParagraph(paragraphs[pIndex + 1], pIndex, Len(paragraphs), st))

\* wrappedLines and sections of a script
layout(s) ==
  LayoutFrom(SplitParagraphs(s), 0,
    [wrappedLines |-> <<>>, sections |-> <<>>, currentLine |-> 0])

\* the canvas sized to the padded text, without the extra viewport
TotalHeightOfTextOnly(lines) ==
  RAdd(RMul(RInt(Len(lines)), lineHeight), RInt(paddingY * 2))

\* totalHeight = wrappedLines.length * lineHeight + paddingY * 2 + height
TotalHeightOf(lines) ==
  RAdd(RMul(RInt(Len(lines)), lineHeight), RInt(paddingY * 2 + height))

(* ------------------ 2. duration allocation and scroll expression -------- *)

\* sections.reduce((s, sec) => s + sec.complexity, 0)
RECURSIVE totalComplexity(_)
totalComplexity(secs) ==
  IF secs = <<>> THEN RInt(0)
  ELSE RAdd(Head(secs).complexity, totalComplexity(Tail(secs)))

\* the share taken as totalComplexity / sec.complexity
secDurOfInverse(sec, totalC, availableDuration) ==
  RMul(RDiv(totalC, sec.complexity), availableDuration)

\* (sec.complexity / totalComplexity) * availableDuration
secDurOf(sec, totalC, availableDuration) ==
  RMul(RDiv(sec.complexity, totalC), availableDuration)

\* sec.startLine * lineHeight + paddingY
startOf(sec) == RAdd(RMul(RInt(sec.startLine), lineHeight), RInt(paddingY))

\* the range end taken at the section's last line instead of below it
endOfLastLineTop(sec) == RAdd(RMul(RInt(sec.endLine), lineHeight), RInt(paddingY))

\* (sec.endLine + 1) * lineHeight + paddingY
endOf(sec) == RAdd(RMul(RInt(sec.endLine + 1), lineHeight), RInt(paddingY))

\* the speed factor applied as a multiplier of the section duration
slopeDenomTimesSpeed(secDur) == RMul(secDur, speedFactor)

\* the divisor of the elapsed time in a section's formula: secDur / speedFactor
slopeDenom(secDur) == RDiv(secDur, speedFactor)

\* one if(lt(t, t0 + secDur), start + ((t - t0) / denom) * height, ...) per section;
\* t is the running window start
RECURSIVE scrollPieces(_, _, _, _)
scrollPieces(secs, t, totalC, availableDuration) ==
  IF secs = <<>> THEN <<>>
  ELSE LET sec == Head(secs)
           secDur == secDurOf(sec, totalC, availableDuration)
           start == startOf(sec)
           end == endOf(sec)
       IN  << [ t0 |-> t,
                bound |-> RAdd(t, secDur),
                secDur |-> secDur,
                start |-> start,
                end |-> end,
                hgt |-> RSub(end, start),
                denom |-> slopeDenom(secDur) ] >>
           \o scrollPieces(Tail(secs), RAdd(t, secDur), totalC, availableDuration)

\* the last conditional falling through to totalHeight itself
finalOffsetWhole(total) == total

\* the value after the last conditional: totalHeight - height
finalOffset(total) == RSub(total, RInt(height))

\* the crop expression with the image pinned at offset 0 during the delay
generateScrollExpressionTopZero(secs, total, dur) ==
  [ delay  |-> RInt(initialDelay),
    top    |-> RInt(0),
    pieces |-> scrollPieces(secs, RInt(initialDelay), totalComplexity(secs),
                            RSub(dur, RInt(initialDelay))),
    final  |-> finalOffset(total) ]

\* the crop expression as a decision tree on t
generateScrollExpression(secs, total, dur) ==
  [ delay  |-> RInt(initialDelay),
    top    |-> RInt(paddingY),
    pieces |-> scrollPieces(secs, RInt(initialDelay), totalComplexity(secs),
                            RSub(dur, RInt(initialDelay))),
    final  |-> finalOffset(total) ]

NoExpression == [delay |-> NaN, top |-> NaN, pieces |-> <<>>, final |-> NaN]

\* start + ((t - t0) / denom) * height
pieceValue(p, t) == RAdd(p.start, RMul(RDiv(RSub(t, p.t0), p.denom), p.hgt))

\* ffmpeg's evaluation of the nested if(lt(t, bound), formula, ...) from piece i on
RECURSIVE evalPieces(_, _, _)
evalPieces(expr, i, t) ==
  IF i > Len(expr.pieces) THEN expr.final
  ELSE IF RLt(t, expr.pieces[i].bound) THEN pieceValue(expr.pieces[i], t)
  ELSE evalPieces(expr, i + 1, t)

\* the crop offset y at output time t
positionAt(expr, t) ==
  IF RLt(t, expr.delay) THEN expr.top ELSE evalPieces(expr, 1, t)

(* ------------------------- 3. the invocation --------------------------- *)

tmpImage == "scroll.png"
tmpAudio == "audio.wav"
tmpVideo == "video.mp4"
tmpFinal == "final.mp4"

\* a cleanup that forgets the muxed file
cleanupOrderWithoutFinal == << tmpImage, tmpAudio, tmpVideo >>

\* the order of the four fs.rmSync calls
cleanupOrder == << tmpImage, tmpAudio, tmpVideo, tmpFinal >>

\* the two invocations and the job identifiers their callers may pass
Invocations == {1, 2}
JobIds == {"j1", "j2"}

\* `/tmp/${jobId}-scroll.png` and the three other template strings
tmpPath(jobId, name) == <<jobId, name>>

TmpNames == {tmpImage, tmpAudio, tmpVideo, tmpFinal}

\* every path an invocation can name
TmpPaths == { tmpPath(j, n) : j \in JobIds, n \in TmpNames }

\* no invocation of the concurrent model has started
ConcurrentIdle ==
  /\ jobs = [i \in Invocations |-> "j1"]
  /\ ipc = [i \in Invocations |-> "Unused"]
  /\ tmp = [p \in TmpPaths |-> 0]
  /\ clash = {}

\* no request has been received
RouteIdle ==
  /\ req = [script |-> "missing", walletAddress |-> "missing"]
  /\ rpc = "Unused"
  /\ balance = 0
  /\ jobStatus = "none"
  /\ storedVideo = FALSE
  /\ response = 0
  /\ notices = <<>>
  /\ scheduled = FALSE

\* generateNarrativeVideoBuffer has not been called
NarrativeIdle ==
  /\ scenes = <<>>
  /\ npc = "Unused"
  /\ nfiles = {}
  /\ frameIndex = 0
  /\ sceneNo = 0

\* const VIDEO_COST = 2
VIDEO_COST == 2

\* durations ffprobe may report for the narration audio
AudioDurations == { RInt(k) : k \in (initialDelay - 1)..MaxAudio }

Init ==
  /\ script \in Scripts
  /\ pc = "Idle"
  /\ wrappedLines = <<>>
  /\ sections = <<>>
  /\ totalHeight = NaN
  /\ files = {}
  /\ duration = NaN
  /\ timeline = NoExpression
  /\ encoderCalls = <<>>
  /\ running = {}
  /\ db = {}
  /\ raised = "none"
  /\ result = "none"
  /\ ConcurrentIdle
  /\ RouteIdle
  /\ NarrativeIdle

\* the catch block replacing the caught error by a generic one
ThrowWrapped(err) ==
  /\ pc' = "Failed"
  /\ result' = "GenerationFailed"

\* the catch block: log and rethrow
Throw(err) ==
  /\ pc' = "Failed"
  /\ result' = err

\* wrap the text, size and draw the canvas, encode the PNG in memory
ComposeImage ==
  /\ pc = "Idle"
  /\ LET l == layout(script)
     IN  /\ wrappedLines' = l.wrappedLines
         /\ sections' = l.sections
         /\ totalHeight' = TotalHeightOf(l.wrappedLines)
  /\ pc' = "ImageComposed"
  /\ UNCHANGED <<concurrentVars, routeVars, narrativeVars, script, files, duration, timeline, encoderCalls, running, db,
                 raised, result>>

\* the layout running, and throwing, only after the temporary files were written
ComposeImageFailsAfterWrite ==
  /\ pc = "TempWritten"
  /\ raised' = "CanvasError"
  /\ Throw("CanvasError")
  /\ UNCHANGED <<concurrentVars, routeVars, narrativeVars, script, wrappedLines, sections, totalHeight, files, duration,
                 timeline, encoderCalls, running, db>>

\* createCanvas, measureText or the PNG stream throws
ComposeImageFails ==
  /\ pc = "Idle"
  /\ raised' = "CanvasError"
  /\ Throw("CanvasError")
  /\ UNCHANGED <<concurrentVars, routeVars, narrativeVars, script, wrappedLines, sections, totalHeight, files, duration,
                 timeline, encoderCalls, running, db>>

\* await saveScrollImage(jobId, imageBuffer)
SaveImage ==
  /\ pc = "ImageComposed"
  /\ db' = db \cup {"scroll_image"}
  /\ pc' = "ImageSaved"
  /\ UNCHANGED <<concurrentVars, routeVars, narrativeVars, script, wrappedLines, sections, totalHeight, files, duration,
                 timeline, encoderCalls, running, raised, result>>

SaveImageFails ==
  /\ pc = "ImageComposed"
  /\ raised' = "DbError"
  /\ Throw("DbError")
  /\ UNCHANGED <<concurrentVars, routeVars, narrativeVars, script, wrappedLines, sections, totalHeight, files, duration,
                 timeline, encoderCalls, running, db>>

\* fs.writeFileSync(tmpImage, ...); fs.writeFileSync(tmpAudio, ...)
WriteTempFiles ==
  /\ pc = "ImageSaved"
  /\ files' = files \cup {tmpImage, tmpAudio}
  /\ pc' = "TempWritten"
  /\ UNCHANGED <<concurrentVars, routeVars, narrativeVars, script, wrappedLines, sections, totalHeight, duration,
                 timeline, encoderCalls, running, db, raised, result>>

\* one of the two fs.writeFileSync throws; what it wrote so far stays
WriteTempFilesFails ==
  /\ pc = "ImageSaved"
  /\ \E written \in { {}, {tmpImage}, {tmpImage, tmpAudio} } :
       files' = files \cup written
  /\ raised' = "WriteError"
  /\ Throw("WriteError")
  /\ UNCHANGED <<concurrentVars, routeVars, narrativeVars, script, wrappedLines, sections, totalHeight, duration,
                 timeline, encoderCalls, running, db>>

\* const duration = await getAudioDuration(tmpAudio)
ProbeAudio ==
  /\ pc = "TempWritten"
  /\ \E d \in AudioDurations : duration' = d
  /\ pc' = "Probed"
  /\ UNCHANGED <<concurrentVars, routeVars, narrativeVars, script, wrappedLines, sections, totalHeight, files,
                 timeline, encoderCalls, running, db, raised, result>>

ProbeAudioFails ==
  /\ pc = "TempWritten"
  /\ raised' = "ProbeError"
  /\ Throw("ProbeError")
  /\ UNCHANGED <<concurrentVars, routeVars, narrativeVars, script, wrappedLines, sections, totalHeight, files, duration,
                 timeline, encoderCalls, running, db>>

\* first ffmpeg run is started: crop the looped image by the scroll
\* expression; the invocation awaits its "end" or "error"
StartEncode ==
  /\ pc = "Probed"
  /\ timeline' = generateScrollExpression(sections, totalHeight, duration)
  /\ encoderCalls' = Append(encoderCalls, "encode")
  /\ running' = running \cup {"encode"}
  /\ pc' = "Encoding"
  /\ UNCHANGED <<concurrentVars, routeVars, narrativeVars, script, wrappedLines, sections, totalHeight, files, duration,
                 db, raised, result>>

\* the first ffmpeg run emits "end"
EncodeScrollVideo ==
  /\ pc = "Encoding"
  /\ running' = running \ {"encode"}
  /\ files' = files \cup {tmpVideo}
  /\ pc' = "ScrollVideoEncoded"
  /\ UNCHANGED <<concurrentVars, routeVars, narrativeVars, script, wrappedLines, sections, totalHeight, duration,
                 timeline, encoderCalls, db, raised, result>>

\* ffmpeg emits "error"; a partial output file may have been written
EncodeScrollVideoFails ==
  /\ pc = "Encoding"
  /\ running' = running \ {"encode"}
  /\ \E partial \in BOOLEAN :
       files' = IF partial THEN files \cup {tmpVideo} ELSE files
  /\ raised' = "EncodeError"
  /\ Throw("EncodeError")
  /\ UNCHANGED <<concurrentVars, routeVars, narrativeVars, script, wrappedLines, sections, totalHeight, duration,
                 timeline, encoderCalls, db>>

\* the mux is started without the first ffmpeg run having ended
StartMuxUnawaited ==
  /\ pc \in {"Encoding", "ScrollVideoEncoded"}
  /\ encoderCalls' = Append(encoderCalls, "mux")
  /\ running' = running \cup {"mux"}
  /\ pc' = "Muxing"
  /\ UNCHANGED <<concurrentVars, routeVars, narrativeVars, script, wrappedLines, sections, totalHeight, files, duration,
                 timeline, db, raised, result>>

\* second ffmpeg run is started: mux the silent video with the audio
StartMux ==
  /\ pc = "ScrollVideoEncoded"
  /\ encoderCalls' = Append(encoderCalls, "mux")
  /\ running' = running \cup {"mux"}
  /\ pc' = "Muxing"
  /\ UNCHANGED <<concurrentVars, routeVars, narrativeVars, script, wrappedLines, sections, totalHeight, files, duration,
                 timeline, db, raised, result>>

\* the second ffmpeg run emits "end"
MuxAudio ==
  /\ pc = "Muxing"
  /\ running' = running \ {"mux"}
  /\ files' = files \cup {tmpFinal}
  /\ pc' = "Muxed"
  /\ UNCHANGED <<concurrentVars, routeVars, narrativeVars, script, wrappedLines, sections, totalHeight, duration,
                 timeline, encoderCalls, db, raised, result>>

MuxAudioFails ==
  /\ pc = "Muxing"
  /\ running' = running \ {"mux"}
  /\ \E partial \in BOOLEAN :
       files' = IF partial THEN files \cup {tmpFinal} ELSE files
  /\ raised' = "MuxError"
  /\ Throw("MuxError")
  /\ UNCHANGED <<concurrentVars, routeVars, narrativeVars, script, wrappedLines, sections, totalHeight, duration,
                 timeline, encoderCalls, db>>

\* const finalVideoBuffer = fs.readFileSync(tmpFinal)
ReadBack ==
  /\ pc = "Muxed"
  /\ pc' = "ReadBack"
  /\ UNCHANGED <<concurrentVars, routeVars, narrativeVars, script, wrappedLines, sections, totalHeight, files, duration,
                 timeline, encoderCalls, running, db, raised, result>>

ReadBackFails ==
  /\ pc = "Muxed"
  /\ raised' = "ReadError"
  /\ Throw("ReadError")
  /\ UNCHANGED <<concurrentVars, routeVars, narrativeVars, script, wrappedLines, sections, totalHeight, files, duration,
                 timeline, encoderCalls, running, db>>

\* await saveScrollVideo(jobId, finalVideoBuffer)
SaveVideo ==
  /\ pc = "ReadBack"
  /\ db' = db \cup {"scroll_video"}
  /\ pc' = "VideoSaved"
  /\ UNCHANGED <<concurrentVars, routeVars, narrativeVars, script, wrappedLines, sections, totalHeight, files, duration,
                 timeline, encoderCalls, running, raised, result>>

SaveVideoFails ==
  /\ pc = "ReadBack"
  /\ raised' = "DbError"
  /\ Throw("DbError")
  /\ UNCHANGED <<concurrentVars, routeVars, narrativeVars, script, wrappedLines, sections, totalHeight, files, duration,
                 timeline, encoderCalls, running, db>>

\* the four fs.rmSync(..., { force: true }) and return finalVideoBuffer
CleanupAndReturn ==
  /\ pc = "VideoSaved"
  /\ files' = files \ {cleanupOrder[i] : i \in 1..Len(cleanupOrder)}
  /\ pc' = "Done"
  /\ result' = "video"
  /\ UNCHANGED <<concurrentVars, routeVars, narrativeVars, script, wrappedLines, sections, totalHeight, duration,
                 timeline, encoderCalls, running, db, raised>>

\* the k-th fs.rmSync throws (force only silences a missing path)
CleanupFails ==
  /\ pc = "VideoSaved"
  /\ \E k \in 1..Len(cleanupOrder) :
       files' = files \ {cleanupOrder[i] : i \in 1..(k - 1)}
  /\ raised' = "CleanupError"
  /\ Throw("CleanupError")
  /\ UNCHANGED <<concurrentVars, routeVars, narrativeVars, script, wrappedLines, sections, totalHeight, duration,
                 timeline, encoderCalls, running, db>>

Next ==
  \/ ComposeImage
  \/ ComposeImageFails
  \/ SaveImage
  \/ SaveImageFails
  \/ WriteTempFiles
  \/ WriteTempFilesFails
  \/ ProbeAudio
  \/ ProbeAudioFails
  \/ StartEncode
  \/ EncodeScrollVideo
  \/ EncodeScrollVideoFails
  \/ StartMux
  \/ MuxAudio
  \/ MuxAudioFails
  \/ ReadBack
  \/ ReadBackFails
  \/ SaveVideo
  \/ SaveVideoFails
  \/ CleanupAndReturn
  \/ CleanupFails

Spec == Init /\ [][Next]_vars

Errors == {"CanvasError", "DbError", "WriteError", "ProbeError", "EncodeError",
           "MuxError", "ReadError", "CleanupError"}

TypeOK ==
  /\ script \in Scripts
  /\ pc \in {"Idle", "ImageComposed", "ImageSaved", "TempWritten", "Probed",
             "Encoding", "ScrollVideoEncoded", "Muxing", "Muxed", "ReadBack",
             "VideoSaved", "Done", "Failed"}
  /\ files \subseteq {tmpImage, tmpAudio, tmpVideo, tmpFinal}
  /\ running \subseteq {"encode", "mux"}
  /\ db \subseteq {"scroll_image", "scroll_video"}
  /\ raised \in {"none"} \cup Errors
  /\ result \in {"none", "video"} \cup Errors

(* ------------------- 4. two concurrent invocations --------------------- *)

\* tmp[p] is 0 when the file p is absent, else the invocation that wrote it

\* the single-invocation model is not used
InvocationIdle ==
  /\ script = <<>>
  /\ pc = "Unused"
  /\ wrappedLines = <<>>
  /\ sections = <<>>
  /\ totalHeight = NaN
  /\ files = {}
  /\ duration = NaN
  /\ timeline = NoExpression
  /\ encoderCalls = <<>>
  /\ running = {}
  /\ db = {}
  /\ raised = "none"
  /\ result = "none"

InitTwo ==
  /\ InvocationIdle
  /\ RouteIdle
  /\ NarrativeIdle
  /\ jobs \in [Invocations -> JobIds]
  /\ ipc = [i \in Invocations |-> "Idle"]
  /\ tmp = [p \in TmpPaths |-> 0]
  /\ clash = {}

\* the accesses of invocation i to files that another invocation wrote
foreign(i, kind, paths) ==
  { <<i, kind, p>> : p \in { q \in paths : tmp[q] \notin {0, i} } }

pathOf(i, name) == tmpPath(jobs[i], name)

\* steps 1-3 and await saveScrollImage: no file is touched
TwoComposeAndSave(i) ==
  /\ ipc[i] = "Idle"
  /\ ipc' = [ipc EXCEPT ![i] = "ImageSaved"]
  /\ UNCHANGED <<invocationVars, routeVars, narrativeVars, jobs, tmp, clash>>

\* the two fs.writeFileSync, then ffprobe is started and awaited
TwoWriteTempFiles(i) ==
  /\ ipc[i] = "ImageSaved"
  /\ LET ps == {pathOf(i, tmpImage), pathOf(i, tmpAudio)}
     IN  /\ clash' = clash \cup foreign(i, "overwrite", ps)
         /\ tmp' = [p \in TmpPaths |-> IF p \in ps THEN i ELSE tmp[p]]
  /\ ipc' = [ipc EXCEPT ![i] = "Probing"]
  /\ UNCHANGED <<invocationVars, routeVars, narrativeVars, jobs>>

\* ffprobe reads the audio file; then the first ffmpeg run is started
TwoProbeAudio(i) ==
  /\ ipc[i] = "Probing"
  /\ tmp[pathOf(i, tmpAudio)] # 0
  /\ clash' = clash \cup foreign(i, "read", {pathOf(i, tmpAudio)})
  /\ ipc' = [ipc EXCEPT ![i] = "Encoding"]
  /\ UNCHANGED <<invocationVars, routeVars, narrativeVars, jobs, tmp>>

\* the first ffmpeg run reads the image and writes the silent video (-y);
\* then the mux is started
TwoEncodeScrollVideo(i) ==
  /\ ipc[i] = "Encoding"
  /\ tmp[pathOf(i, tmpImage)] # 0
  /\ clash' = clash \cup foreign(i, "read", {pathOf(i, tmpImage)})
                    \cup foreign(i, "overwrite", {pathOf(i, tmpVideo)})
  /\ tmp' = [tmp EXCEPT ![pathOf(i, tmpVideo)] = i]
  /\ ipc' = [ipc EXCEPT ![i] = "Muxing"]
  /\ UNCHANGED <<invocationVars, routeVars, narrativeVars, jobs>>

\* the second ffmpeg run reads the video and the audio and writes the final file
TwoMuxAudio(i) ==
  /\ ipc[i] = "Muxing"
  /\ tmp[pathOf(i, tmpVideo)] # 0
  /\ tmp[pathOf(i, tmpAudio)] # 0
  /\ clash' = clash \cup foreign(i, "read", {pathOf(i, tmpVideo), pathOf(i, tmpAudio)})
                    \cup foreign(i, "overwrite", {pathOf(i, tmpFinal)})
  /\ tmp' = [tmp EXCEPT ![pathOf(i, tmpFinal)] = i]
  /\ ipc' = [ipc EXCEPT ![i] = "Muxed"]
  /\ UNCHANGED <<invocationVars, routeVars, narrativeVars, jobs>>

\* fs.readFileSync(tmpFinal), then await saveScrollVideo
TwoReadBack(i) ==
  /\ ipc[i] = "Muxed"
  /\ tmp[pathOf(i, tmpFinal)] # 0
  /\ clash' = clash \cup foreign(i, "read", {pathOf(i, tmpFinal)})
  /\ ipc' = [ipc EXCEPT ![i] = "VideoSaved"]
  /\ UNCHANGED <<invocationVars, routeVars, narrativeVars, jobs, tmp>>

\* the four fs.rmSync and the return
TwoCleanupAndReturn(i) ==
  /\ ipc[i] = "VideoSaved"
  /\ LET ps == { pathOf(i, cleanupOrder[k]) : k \in 1..Len(cleanupOrder) }
     IN  /\ clash' = clash \cup foreign(i, "delete", ps)
         /\ tmp' = [p \in TmpPaths |-> IF p \in ps THEN 0 ELSE tmp[p]]
  /\ ipc' = [ipc EXCEPT ![i] = "Done"]
  /\ UNCHANGED <<invocationVars, routeVars, narrativeVars, jobs>>

\* an awaited step rejects (also when an input file is gone): catch and rethrow
TwoFails(i) ==
  /\ ipc[i] \in {"Idle", "Probing", "Encoding", "Muxing", "Muxed", "VideoSaved"}
  /\ ipc' = [ipc EXCEPT ![i] = "Failed"]
  /\ UNCHANGED <<invocationVars, routeVars, narrativeVars, jobs, tmp, clash>>

NextTwo ==
  \E i \in Invocations :
    \/ TwoComposeAndSave(i)
    \/ TwoWriteTempFiles(i)
    \/ TwoProbeAudio(i)
    \/ TwoEncodeScrollVideo(i)
    \/ TwoMuxAudio(i)
    \/ TwoReadBack(i)
    \/ TwoCleanupAndReturn(i)
    \/ TwoFails(i)

SpecTwo == InitTwo /\ [][NextTwo]_vars

(* ------------------------ 5. POST /api/generate ------------------------ *)

\* a request is valid in a field ("ok") or not ("missing")
Requests == [script : {"ok", "missing"}, walletAddress : {"ok", "missing"}]

InitRoute ==
  /\ InvocationIdle
  /\ ConcurrentIdle
  /\ NarrativeIdle
  /\ req \in Requests
  /\ balance \in 0..MaxCredits
  /\ rpc = "Received"
  /\ jobStatus = "none"
  /\ storedVideo = FALSE
  /\ response = 0
  /\ notices = <<>>
  /\ scheduled = FALSE

\* sendWebhook: the POST is delivered, or fails and is only logged
Webhooked(status) == { notices, Append(notices, <<"webhook", status>>) }

\* the two checks of req.body
ValidateRequest ==
  /\ rpc = "Received"
  /\ IF req.script = "missing" \/ req.walletAddress = "missing"
     THEN response' = 400 /\ rpc' = "HandlerDone"
     ELSE response' = response /\ rpc' = "Deducting"
  /\ UNCHANGED <<invocationVars, concurrentVars, narrativeVars,
                 req, balance, jobStatus, storedVideo, notices, scheduled>>

\* the deduction answering 402 without returning
DeductCreditsNoReturn ==
  /\ rpc = "Deducting"
  /\ IF balance < VIDEO_COST
     THEN response' = 402 /\ balance' = balance
     ELSE response' = response /\ balance' = balance - VIDEO_COST
  /\ rpc' = "Creating"
  /\ UNCHANGED <<invocationVars, concurrentVars, narrativeVars,
                 req, jobStatus, storedVideo, notices, scheduled>>

\* newBalance = await deductUserPoints(walletAddress, VIDEO_COST);
\* null: answer 402 and return
DeductCredits ==
  /\ rpc = "Deducting"
  /\ IF balance < VIDEO_COST
     THEN response' = 402 /\ balance' = balance /\ rpc' = "HandlerDone"
     ELSE response' = response /\ balance' = balance - VIDEO_COST /\ rpc' = "Creating"
  /\ UNCHANGED <<invocationVars, concurrentVars, narrativeVars,
                 req, jobStatus, storedVideo, notices, scheduled>>

\* jobId = await createVideoJob(...)
CreateJob ==
  /\ rpc = "Creating"
  /\ jobStatus' = "pending"
  /\ rpc' = "MarkingGenerating"
  /\ UNCHANGED <<invocationVars, concurrentVars, narrativeVars,
                 req, balance, storedVideo, response, notices, scheduled>>

\* deductUserPoints or createVideoJob throws: catch with jobId = null
SetupFailsWithoutJob ==
  /\ rpc \in {"Deducting", "Creating"}
  /\ response' = 500
  /\ rpc' = "HandlerDone"
  /\ UNCHANGED <<invocationVars, concurrentVars, narrativeVars,
                 req, balance, jobStatus, storedVideo, notices, scheduled>>

\* await updateJobStatus(jobId, 'generating')
MarkGenerating ==
  /\ rpc = "MarkingGenerating"
  /\ jobStatus' = "generating"
  /\ rpc' = "Enhancing"
  /\ UNCHANGED <<invocationVars, concurrentVars, narrativeVars,
                 req, balance, storedVideo, response, notices, scheduled>>

\* explanation = await enhanceScript(script); res.json(...); setImmediate(...)
EnhanceAndRespond ==
  /\ rpc = "Enhancing"
  /\ response' = 200
  /\ scheduled' = TRUE
  /\ rpc' = "Scheduled"
  /\ UNCHANGED <<invocationVars, concurrentVars, narrativeVars,
                 req, balance, jobStatus, storedVideo, notices>>

\* updateJobStatus or enhanceScript throws: catch with a jobId
SetupFailsWithJob ==
  /\ rpc \in {"MarkingGenerating", "Enhancing"}
  /\ rpc' = "HandlerCatch"
  /\ UNCHANGED <<invocationVars, concurrentVars, narrativeVars,
                 req, balance, jobStatus, storedVideo, response, notices, scheduled>>

\* await updateJobStatus(jobId, 'failed', ...).catch(console.error);
\* await sendWebhook(jobId, 'failed', ...); res.status(500)
HandlerCatch ==
  /\ rpc = "HandlerCatch"
  /\ jobStatus' \in {jobStatus, "failed"}
  /\ notices' \in Webhooked("failed")
  /\ response' = 500
  /\ rpc' = "HandlerDone"
  /\ UNCHANGED <<invocationVars, concurrentVars, narrativeVars,
                 req, balance, storedVideo, scheduled>>

\* the setImmediate callback starts processVideoGeneration
StartBackground ==
  /\ rpc = "Scheduled"
  /\ notices' = Append(notices, <<"ws", "progress">>)
  /\ rpc' = "Speech"
  /\ UNCHANGED <<invocationVars, concurrentVars, narrativeVars,
                 req, balance, jobStatus, storedVideo, response, scheduled>>

\* audioBuffer = await generateSpeechBuffer(explanation)
GenerateSpeech ==
  /\ rpc = "Speech"
  /\ rpc' = "Video"
  /\ UNCHANGED <<invocationVars, concurrentVars, narrativeVars,
                 req, balance, jobStatus, storedVideo, response, notices, scheduled>>

\* videoBuffer = await generateScrollingScriptVideoBuffer(script, audioBuffer)
GenerateVideo ==
  /\ rpc = "Video"
  /\ rpc' = "Storing"
  /\ UNCHANGED <<invocationVars, concurrentVars, narrativeVars,
                 req, balance, jobStatus, storedVideo, response, notices, scheduled>>

\* videoId = await storeVideo(jobId, walletAddress, videoBuffer, durationSec)
StoreVideo ==
  /\ rpc = "Storing"
  /\ storedVideo' = TRUE
  /\ rpc' = "MarkingCompleted"
  /\ UNCHANGED <<invocationVars, concurrentVars, narrativeVars,
                 req, balance, jobStatus, response, notices, scheduled>>

\* the status set to completed in place of the store
MarkCompletedBeforeStore ==
  /\ rpc = "Storing"
  /\ jobStatus' = "completed"
  /\ rpc' = "NotifyingCompleted"
  /\ UNCHANGED <<invocationVars, concurrentVars, narrativeVars,
                 req, balance, storedVideo, response, notices, scheduled>>

\* await updateJobStatus(jobId, 'completed')
MarkCompleted ==
  /\ rpc = "MarkingCompleted"
  /\ jobStatus' = "completed"
  /\ rpc' = "NotifyingCompleted"
  /\ UNCHANGED <<invocationVars, concurrentVars, narrativeVars,
                 req, balance, storedVideo, response, notices, scheduled>>

\* await sendWebhook(jobId, 'completed', ...); wsManager.emitCompleted(...)
NotifyCompleted ==
  /\ rpc = "NotifyingCompleted"
  /\ \E n \in Webhooked("completed") : notices' = Append(n, <<"ws", "completed">>)
  /\ rpc' = "BackgroundDone"
  /\ UNCHANGED <<invocationVars, concurrentVars, narrativeVars,
                 req, balance, jobStatus, storedVideo, response, scheduled>>

\* an awaited step of processVideoGeneration rejects
BackgroundFails ==
  /\ rpc \in {"Speech", "Video", "Storing", "MarkingCompleted"}
  /\ rpc' = "BackgroundCatch"
  /\ UNCHANGED <<invocationVars, concurrentVars, narrativeVars,
                 req, balance, jobStatus, storedVideo, response, notices, scheduled>>

\* catch: await sendWebhook(jobId, 'failed', ...); wsManager.emitError(...)
BackgroundCatch ==
  /\ rpc = "BackgroundCatch"
  /\ \E n \in Webhooked("failed") : notices' = Append(n, <<"ws", "error">>)
  /\ rpc' = "BackgroundDone"
  /\ UNCHANGED <<invocationVars, concurrentVars, narrativeVars,
                 req, balance, jobStatus, storedVideo, response, scheduled>>

NextRoute ==
  \/ ValidateRequest
  \/ DeductCredits
  \/ CreateJob
  \/ SetupFailsWithoutJob
  \/ MarkGenerating
  \/ EnhanceAndRespond
  \/ SetupFailsWithJob
  \/ HandlerCatch
  \/ StartBackground
  \/ GenerateSpeech
  \/ GenerateVideo
  \/ StoreVideo
  \/ MarkCompleted
  \/ NotifyCompleted
  \/ BackgroundFails
  \/ BackgroundCatch

SpecRoute == InitRoute /\ [][NextRoute]_vars

(* -------------------- 6. generateNarrativeVideoBuffer ------------------ *)

\* tempDir of generateNarrativeVideoBuffer and what is written into it
\* (a path is the sequence of its components)
bufferDir == <<"narrative-now-rand">>
audioPath == <<"narrative-now-rand", "audio.mp3">>
intermediatePath == <<"narrative-now-rand", "output_video.mp4">>
videoPath == <<"narrative-now-rand", "output.mp4">>

\* tempDir and frameDir of generateNarrativeVideo
tempDir == <<"narrative-now">>
frameDir == <<"narrative-now", "frames">>

\* frame_%06d.png in frameDir
framePath(k) == <<"narrative-now", "frames", k>>

\* the number of frames (Math.ceil(scene.duration * frameRate)) of each scene
SceneLists == UNION { [1..n -> 0..MaxFrames] : n \in 0..MaxScenes }

InitNarrative ==
  /\ InvocationIdle
  /\ ConcurrentIdle
  /\ RouteIdle
  /\ scenes \in SceneLists
  /\ npc = "Start"
  /\ nfiles = {}
  /\ frameIndex = 0
  /\ sceneNo = 0

\* the directory dir and everything below it: what fs.rmSync(dir, { recursive: true }) removes
Under(dir) ==
  { f \in nfiles : Len(f) >= Len(dir) /\ SubSeq(f, 1, Len(dir)) = dir }

UnderTempDir == Under(tempDir)

UnderBufferDir == Under(bufferDir)

\* mkdirSync(tempDir), writeFileSync(audioPath), then in generateNarrativeVideo
\* mkdirSync(frameDir, { recursive: true })
NarrativeSetup ==
  /\ npc = "Start"
  /\ nfiles' = {bufferDir, audioPath, tempDir, frameDir}
  /\ npc' = "Frames"
  /\ UNCHANGED <<invocationVars, concurrentVars, routeVars, scenes, frameIndex, sceneNo>>

\* one of the three calls throws (none of them is inside a try)
NarrativeSetupFails ==
  /\ npc = "Start"
  /\ nfiles' \in { {}, {bufferDir}, {bufferDir, audioPath} }
  /\ npc' = "Failed"
  /\ UNCHANGED <<invocationVars, concurrentVars, routeVars, scenes, frameIndex, sceneNo>>

\* frameIndex = await generateSceneFrames(scene, frameDir, frameIndex)
RenderScene ==
  /\ npc = "Frames"
  /\ sceneNo < Len(scenes)
  /\ LET n == scenes[sceneNo + 1]
     IN  /\ nfiles' = nfiles \cup { framePath(k) : k \in frameIndex..(frameIndex + n - 1) }
         /\ frameIndex' = frameIndex + n
  /\ sceneNo' = sceneNo + 1
  /\ UNCHANGED <<invocationVars, concurrentVars, routeVars, scenes, npc>>

\* what the finally block of generateNarrativeVideo leaves when the try block threw
AfterFinally == nfiles \ UnderTempDir

\* rendering a frame throws after some frames of the scene were written
RenderSceneFails ==
  /\ npc = "Frames"
  /\ sceneNo < Len(scenes)
  /\ nfiles' = AfterFinally
  /\ npc' = "Failed"
  /\ UNCHANGED <<invocationVars, concurrentVars, routeVars, scenes, frameIndex, sceneNo>>

\* audioDuration = await getAudioDuration(audioPath)
NarrativeProbe ==
  /\ npc = "Frames"
  /\ sceneNo = Len(scenes)
  /\ npc' = "Encoding"
  /\ UNCHANGED <<invocationVars, concurrentVars, routeVars, scenes, nfiles, frameIndex, sceneNo>>

NarrativeProbeFails ==
  /\ npc = "Frames"
  /\ sceneNo = Len(scenes)
  /\ nfiles' = AfterFinally
  /\ npc' = "Failed"
  /\ UNCHANGED <<invocationVars, concurrentVars, routeVars, scenes, frameIndex, sceneNo>>

\* first ffmpeg run: frames to outputPath with _video.mp4
NarrativeEncode ==
  /\ npc = "Encoding"
  /\ nfiles' = nfiles \cup {intermediatePath}
  /\ npc' = "Muxing"
  /\ UNCHANGED <<invocationVars, concurrentVars, routeVars, scenes, frameIndex, sceneNo>>

\* the first ffmpeg run fails, with or without a partial output file
NarrativeEncodeFails ==
  /\ npc = "Encoding"
  /\ \E partial \in { {}, {intermediatePath} } : nfiles' = AfterFinally \cup partial
  /\ npc' = "Failed"
  /\ UNCHANGED <<invocationVars, concurrentVars, routeVars, scenes, frameIndex, sceneNo>>

\* second ffmpeg run writes outputPath; unlinkSync(videoPath); finally
NarrativeMux ==
  /\ npc = "Muxing"
  /\ nfiles' = ((nfiles \cup {videoPath}) \ {intermediatePath}) \ UnderTempDir
  /\ npc' = "Merged"
  /\ UNCHANGED <<invocationVars, concurrentVars, routeVars, scenes, frameIndex, sceneNo>>

\* the second ffmpeg run fails, with or without a partial output file
NarrativeMuxFails ==
  /\ npc = "Muxing"
  /\ \E partial \in { {}, {videoPath} } : nfiles' = AfterFinally \cup partial
  /\ npc' = "Failed"
  /\ UNCHANGED <<invocationVars, concurrentVars, routeVars, scenes, frameIndex, sceneNo>>

\* fs.readFileSync(videoPath); fs.rmSync(tempDir, { recursive, force }); return
NarrativeReadAndCleanup ==
  /\ npc = "Merged"
  /\ nfiles' = nfiles \ UnderBufferDir
  /\ npc' = "Done"
  /\ UNCHANGED <<invocationVars, concurrentVars, routeVars, scenes, frameIndex, sceneNo>>

\* fs.readFileSync or fs.rmSync throws
NarrativeReadFails ==
  /\ npc = "Merged"
  /\ npc' = "Failed"
  /\ UNCHANGED <<invocationVars, concurrentVars, routeVars, scenes, nfiles, frameIndex, sceneNo>>

NextNarrative ==
  \/ NarrativeSetup
  \/ NarrativeSetupFails
  \/ RenderScene
  \/ RenderSceneFails
  \/ NarrativeProbe
  \/ NarrativeProbeFails
  \/ NarrativeEncode
  \/ NarrativeEncodeFails
  \/ NarrativeMux
  \/ NarrativeMuxFails
  \/ NarrativeReadAndCleanup
  \/ NarrativeReadFails

SpecNarrative == InitNarrative /\ [][NextNarrative]_vars

(* ----------------------------- properties ------------------------------ *)

Returned == pc \in {"Done", "Failed"}

\* the scroll expression of this invocation has been generated
ExprBuilt == encoderCalls # <<>>

\* the states right after the expression was generated
ExprJustBuilt == Len(encoderCalls) = 1

availableDuration == RSub(duration, RInt(initialDelay))

RECURSIVE SumSecDur(_)
SumSecDur(pieces) ==
  IF pieces = <<>> THEN RInt(0)
  ELSE RAdd(Head(pieces).secDur, SumSecDur(Tail(pieces)))

\* C1: on every exit path (return or throw) every temporary file the
\* invocation created has been removed.
C1_TempArtifactsReleased == Returned => files = {}

\* C2: for an empty script the layout has zero sections and the invocation
\* fails before any temporary file is written and before any encoder call.
C2_EmptyScriptFailsFast ==
  script = <<>> =>
    /\ sections = <<>>
    /\ files = {}
    /\ encoderCalls = <<>>
    /\ pc \in {"Idle", "Failed"}

\* C3: when the probed audio duration is at most the initial delay, neither
\* the scroll-video encode nor the mux is ever invoked.
C3_AudioTooShortStops ==
  RLe(duration, RInt(initialDelay)) =>
    /\ encoderCalls = <<>>
    /\ pc \in {"Probed", "Failed"}

\* section i (from 1) contains the wrapped line with 0-based index k
InSection(i, k) == sections[i].startLine <= k /\ k <= sections[i].endLine

\* C4: the sections partition [0, lines.length) contiguously and exhaustively:
\* first start 0, each start is the previous end + 1, last end is
\* lines.length - 1, every wrapped line lies in exactly one section.
C4_SectionsPartitionLines ==
  sections # <<>> =>
    /\ sections[1].startLine = 0
    /\ \A i \in 1..(Len(sections) - 1) :
         sections[i + 1].startLine = sections[i].endLine + 1
    /\ sections[Len(sections)].endLine = Len(wrappedLines) - 1
    /\ \A k \in 0..(Len(wrappedLines) - 1) :
         Cardinality({ i \in 1..Len(sections) : InSection(i, k) }) = 1

\* C5: with at least one section and audioDuration > initialDelay, the
\* per-section durations sum to audioDuration - initialDelay.
C5_DurationsSumToAvailable ==
  (ExprBuilt /\ sections # <<>> /\ RLt(RInt(initialDelay), duration)) =>
    REq(SumSecDur(timeline.pieces), availableDuration)

\* C6: when the total complexity is 0 every section gets
\* availableDuration / sections.length.
C6_ZeroComplexityEqualShare ==
  (ExprBuilt /\ RLt(RInt(initialDelay), duration)
             /\ REq(totalComplexity(sections), RInt(0))) =>
    \A i \in 1..Len(timeline.pieces) :
      REq(timeline.pieces[i].secDur,
          RDiv(availableDuration, RInt(Len(sections))))

\* the times at which the scroll position is inspected: an even grid over
\* [0, audioDuration] and the start, middle and end of every window
SampleTimes(expr, dur) ==
  LET grid == { R(k * dur.n, GridSteps * dur.d) : k \in 0..GridSteps }
      marks == UNION { { expr.pieces[i].t0, expr.pieces[i].bound,
                         RDiv(RAdd(expr.pieces[i].t0, expr.pieces[i].bound), RInt(2)) }
                       : i \in 1..Len(expr.pieces) }
  IN  { t \in grid \cup marks : RLe(RInt(0), t) /\ RLe(t, dur) }

\* the position a piece reaches at the end of its (non-empty) window
leftLimit(p) == pieceValue(p, p.bound)

\* C7: positionAt is weakly non-decreasing on [0, audioDuration] whenever
\* audioDuration > initialDelay: on all sample times, and the value a window
\* reaches at its end never exceeds the position taken from that time on.
C7_PositionNonDecreasing ==
  (ExprJustBuilt /\ RLt(RInt(initialDelay), duration)) =>
    /\ \A t1, t2 \in SampleTimes(timeline, duration) :
         RLe(t1, t2) => RLe(positionAt(timeline, t1), positionAt(timeline, t2))
    /\ \A i \in 1..Len(timeline.pieces) :
         RLt(timeline.pieces[i].t0, timeline.pieces[i].bound) =>
           RLe(leftLimit(timeline.pieces[i]),
               positionAt(timeline, timeline.pieces[i].bound))

\* a run with two sections of positive duration whose position really moves
C7_Witness ==
  /\ ExprJustBuilt
  /\ RLt(RInt(initialDelay), duration)
  /\ Len(timeline.pieces) = 2
  /\ \A i \in 1..2 : RLt(RInt(0), timeline.pieces[i].secDur)
  /\ RLt(positionAt(timeline, timeline.pieces[1].t0),
         positionAt(timeline, timeline.pieces[2].t0))
  /\ RLt(positionAt(timeline, timeline.pieces[2].t0),
         positionAt(timeline, duration))

\* C8: positionAt is continuous at every window end: the position reached at
\* the end of a window equals the position at the start of what follows.
C8_ContinuousAtBoundaries ==
  (ExprJustBuilt /\ RLt(RInt(initialDelay), duration)) =>
    \A i \in 1..Len(timeline.pieces) :
      RLt(timeline.pieces[i].t0, timeline.pieces[i].bound) =>
        REq(leftLimit(timeline.pieces[i]),
            positionAt(timeline, timeline.pieces[i].bound))

\* C9: the time windows are contiguous, non-overlapping and cover
\* [initialDelay, audioDuration].
C9_WindowsCoverAudio ==
  (ExprJustBuilt /\ RLt(RInt(initialDelay), duration)) =>
    /\ REq(timeline.pieces[1].t0, RInt(initialDelay))
    /\ \A i \in 1..Len(timeline.pieces) :
         RLe(timeline.pieces[i].t0, timeline.pieces[i].bound)
    /\ \A i \in 1..(Len(timeline.pieces) - 1) :
         REq(timeline.pieces[i + 1].t0, timeline.pieces[i].bound)
    /\ REq(timeline.pieces[Len(timeline.pieces)].bound, duration)

\* section pixel ranges are ordered: each range is non-empty-or-flat and
\* starts no earlier than the previous one ends
PixelRangesOrdered ==
  /\ \A i \in 1..Len(timeline.pieces) :
       RLe(timeline.pieces[i].start, timeline.pieces[i].end)
  /\ \A i \in 1..(Len(timeline.pieces) - 1) :
       RLe(timeline.pieces[i].end, timeline.pieces[i + 1].start)

\* C10 as stated: the pixel ranges are non-decreasing, start at
\* verticalPadding and end at totalImageHeight - viewportHeight.
C10_PixelRangesSpanToFinal ==
  (ExprJustBuilt /\ timeline.pieces # <<>>) =>
    /\ PixelRangesOrdered
    /\ REq(timeline.pieces[1].start, RInt(paddingY))
    /\ REq(timeline.pieces[Len(timeline.pieces)].end, timeline.final)

\* C10 amended: the pixel ranges are non-decreasing in section order, the
\* first starts at verticalPadding and the last ends one verticalPadding
\* above the final offset, at totalImageHeight - viewportHeight - verticalPadding.
C10_PixelRangesSpanText ==
  (ExprJustBuilt /\ timeline.pieces # <<>>) =>
    /\ PixelRangesOrdered
    /\ REq(timeline.pieces[1].start, RInt(paddingY))
    /\ REq(timeline.pieces[Len(timeline.pieces)].end,
           RSub(RSub(totalHeight, RInt(height)), RInt(paddingY)))

\* two sections, the second of several wrapped lines
C10_Witness ==
  /\ ExprJustBuilt
  /\ RLt(RInt(initialDelay), duration)
  /\ Len(timeline.pieces) = 2
  /\ RLt(timeline.pieces[1].end, timeline.pieces[2].start)
  /\ sections[2].endLine > sections[2].startLine + 1

\* the state of the orchestrator's state machine that a control position belongs to
phase(p) ==
  CASE p = "Idle" -> "Idle"
    [] p \in {"ImageComposed", "ImageSaved", "TempWritten", "Probed", "Encoding"}
         -> "ImageComposed"
    [] p \in {"ScrollVideoEncoded", "Muxing"} -> "ScrollVideoEncoded"
    [] p \in {"Muxed", "ReadBack", "VideoSaved"} -> "Muxed"
    [] p = "Done" -> "Done"
    [] p = "Failed" -> "Failed"

PhaseSteps ==
  { <<"Idle", "ImageComposed">>, <<"ImageComposed", "ScrollVideoEncoded">>,
    <<"ScrollVideoEncoded", "Muxed">>, <<"Muxed", "Done">> }
  \cup { <<ph, "Failed">> : ph \in {"Idle", "ImageComposed", "ScrollVideoEncoded", "Muxed"} }

\* a step that throws
FailStep ==
  \/ ComposeImageFails \/ SaveImageFails \/ WriteTempFilesFails \/ ProbeAudioFails
  \/ EncodeScrollVideoFails \/ MuxAudioFails \/ ReadBackFails \/ SaveVideoFails
  \/ CleanupFails

\* C11: the states are visited only in the order Idle, ImageComposed,
\* ScrollVideoEncoded, Muxed, Done (or Failed from a non-terminal state); the
\* mux is started only after the encode has ended successfully, the final
\* file is read only after the mux has ended successfully, at most one ffmpeg
\* run is in progress, and in every non-terminal state a throwing step is
\* possible, at once or right after the ffmpeg run that is about to start.
C11_PhasesInOrder ==
  /\ [][phase(pc') # phase(pc) => <<phase(pc), phase(pc')>> \in PhaseSteps]_vars
  /\ [][("mux" \in running' /\ "mux" \notin running) =>
          (pc = "ScrollVideoEncoded" /\ running = {} /\ tmpVideo \in files)]_vars
  /\ [][(pc' = "ReadBack" /\ pc # "ReadBack") =>
          (pc = "Muxed" /\ running = {} /\ tmpFinal \in files)]_vars
  /\ [](Cardinality(running) <= 1)
  /\ [](~Returned => (ENABLED FailStep \/ ENABLED StartMux \/ pc = "Probed"))

\* a run that went through every state up to Done
C11_Witness ==
  /\ pc = "Done"
  /\ encoderCalls = <<"encode", "mux">>
  /\ running = {}
  /\ result = "video"

\* C12: when the encode or the mux fails, the invocation ends there: the
\* caller receives that tool's error, no later phase has run (no mux after a
\* failed encode, no stored video), nothing runs afterwards and no video
\* buffer is returned.
C12_EncoderFailureAborts ==
  raised \in {"EncodeError", "MuxError"} =>
    /\ pc = "Failed"
    /\ result = raised
    /\ result # "video"
    /\ running = {}
    /\ "scroll_video" \notin db
    /\ (raised = "EncodeError" => (encoderCalls = <<"encode">> /\ tmpFinal \notin files))
    /\ (raised = "MuxError" => encoderCalls = <<"encode", "mux">>)
    /\ ~ENABLED Next

\* the mux failed after a successful encode
C12_Witness ==
  /\ raised = "MuxError"
  /\ pc = "Failed"
  /\ tmpVideo \in files

\* C13: a failure while removing temporary files never overrides the primary
\* result: after a successful mux and read-back the caller gets the video even
\* if an fs.rmSync throws, and after an encoder failure the caller gets the
\* encoder's error.
C13_CleanupNeverMasksResult ==
  Returned =>
    /\ (raised = "CleanupError" => result = "video")
    /\ (raised \in {"EncodeError", "MuxError"} => result = raised)

\* the layout of the script has been computed
LaidOut == wrappedLines # <<>>

\* a wrapped line that is one word: non-empty and without a space
IsSingleWord(line) == line # <<>> /\ \A k \in 1..Len(line) : line[k] # SP

\* C14: every wrapped line is at most drawableWidth wide, except a line
\* that is a single word wider than drawableWidth.
C14_WrappedLinesFit ==
  \A i \in 1..Len(wrappedLines) :
    \/ measureText(wrappedLines[i]) <= drawableWidth
    \/ IsSingleWord(wrappedLines[i])

\* a layout with an over-wide single word and a line flushed by the wrap
C14_Witness ==
  /\ Len(wrappedLines) >= 3
  /\ \E i \in 1..Len(wrappedLines) : measureText(wrappedLines[i]) > drawableWidth
  /\ \E i \in 1..Len(wrappedLines) :
       wrappedLines[i] # <<>> /\ measureText(wrappedLines[i]) <= drawableWidth

\* sample times before the initial delay
EarlyTimes ==
  { R(k * initialDelay, GridSteps) : k \in 0..(GridSteps - 1) }
  \cup { t \in SampleTimes(timeline, duration) : RLt(t, RInt(initialDelay)) }

\* C15: for every t < initialDelay the scroll position is verticalPadding.
C15_PinnedBeforeDelay ==
  ExprJustBuilt =>
    \A t \in EarlyTimes : REq(positionAt(timeline, t), RInt(paddingY))

\* an expression that is pinned first and scrolls later
C15_Witness ==
  /\ ExprJustBuilt
  /\ RLt(RInt(initialDelay), duration)
  /\ REq(positionAt(timeline, RInt(0)), RInt(paddingY))
  /\ RLt(RInt(paddingY), positionAt(timeline, timeline.pieces[1].bound))

\* sample times at and after the end of the audio
LateTimes == { RAdd(duration, R(k, 2)) : k \in 0..GridSteps }

\* the sample times that lie inside the window of piece p and before the end of the audio
WindowTimes(p) ==
  { t \in SampleTimes(timeline, duration) :
      RLe(p.t0, t) /\ RLt(t, p.bound) /\ RLt(t, duration) }

\* C16: for every t >= audioDuration the scroll position is
\* totalImageHeight - viewportHeight, and inside a section's window before
\* the end of the audio the position is not that final value.
C16_FinalOffsetAfterAudio ==
  ExprJustBuilt =>
    /\ \A t \in LateTimes : REq(positionAt(timeline, t), timeline.final)
    /\ \A i \in 1..Len(timeline.pieces) :
         \A t \in WindowTimes(timeline.pieces[i]) :
           ~REq(positionAt(timeline, t), timeline.final)

\* number of elements of a sequence that satisfy a test, here: blank or empty lines
RECURSIVE CountBlank(_)
CountBlank(lines) ==
  IF lines = <<>> THEN 0
  ELSE (IF IsBlank(Head(lines)) THEN 1 ELSE 0) + CountBlank(Tail(lines))

RECURSIVE CountEmpty(_)
CountEmpty(lines) ==
  IF lines = <<>> THEN 0
  ELSE (IF Head(lines) = <<>> THEN 1 ELSE 0) + CountEmpty(Tail(lines))

\* C17: the number of empty wrapped lines equals the number of blank lines
\* of the input script.
C17_BlankLinesPreserved ==
  LaidOut => CountEmpty(wrappedLines) = CountBlank(SplitOn(script, NL))

\* the complexity of a paragraph: the sum over its non-blank lines
RECURSIVE SumLineComplexity(_)
SumLineComplexity(lines) ==
  IF lines = <<>> THEN RInt(0)
  ELSE RAdd(IF IsBlank(Head(lines)) THEN RInt(0) ELSE lineComplexity(Head(lines)),
            SumLineComplexity(Tail(lines)))

\* C18: there is one section per blank-line-delimited paragraph, in
\* paragraph order; for two non-empty paragraphs there are exactly two
\* sections, each of complexity > 0 and each with a positive duration
\* proportional to its complexity.
C18_OneSectionPerParagraph ==
  LET paras == SplitParagraphs(script)
  IN  /\ LaidOut =>
           /\ Len(sections) = Len(paras)
           /\ \A i \in 1..Len(sections) :
                REq(sections[i].complexity,
                    SumLineComplexity(SplitOn(paras[i], NL)))
           /\ \A i \in 1..(Len(sections) - 1) :
                sections[i].endLine < sections[i + 1].startLine
      /\ (ExprJustBuilt /\ RLt(RInt(initialDelay), duration)
            /\ Len(paras) = 2 /\ ~IsBlank(paras[1]) /\ ~IsBlank(paras[2])) =>
           /\ Len(timeline.pieces) = 2
           /\ \A i \in 1..2 :
                /\ RLt(RInt(0), sections[i].complexity)
                /\ RLt(RInt(0), timeline.pieces[i].secDur)
           /\ REq(RMul(timeline.pieces[1].secDur, sections[2].complexity),
                  RMul(timeline.pieces[2].secDur, sections[1].complexity))

\* two non-empty paragraphs of different complexity with their durations
C18_Witness ==
  /\ ExprJustBuilt
  /\ RLt(RInt(initialDelay), duration)
  /\ Len(SplitParagraphs(script)) = 2
  /\ Len(sections) = 2
  /\ RLt(RInt(0), sections[1].complexity)
  /\ RLt(sections[1].complexity, sections[2].complexity)
  /\ RLt(timeline.pieces[1].secDur, timeline.pieces[2].secDur)

\* C19: for every interleaving of two concurrent invocations, no temporary
\* file written by one invocation is read, overwritten or deleted by the
\* other.
C19_NoForeignFileAccess == clash = {}

C22_LayoutFailureAbortsEarly ==
  raised = "CanvasError" =>
    /\ pc = "Failed"
    /\ result = "CanvasError"
    /\ files = {}
    /\ IsNaN(duration)
    /\ encoderCalls = <<>>
    /\ running = {}
    /\ db = {}

\* the layout of a non-empty script has thrown
C22_Witness ==
  /\ raised = "CanvasError"
  /\ pc = "Failed"
  /\ script # <<>>
  /\ wrappedLines = <<>>

\* the height of the text block with its two paddings
paddedTextHeight == RAdd(RMul(RInt(Len(wrappedLines)), lineHeight), RInt(paddingY * 2))

\* C23 as stated: totalImageHeight - viewportHeight >= viewportHeight.
C23_ExceedsByViewport ==
  LaidOut => RLe(RInt(height), RSub(totalHeight, RInt(height)))

\* C23 amended: the total image height exceeds the padded text height by
\* exactly one viewport (totalImageHeight - viewportHeight = linesCount *
\* lineHeight + 2 * verticalPadding), so it exceeds the viewport height by
\* at least 2 * verticalPadding and the window at the final offset lies
\* inside the image.
C23_ExceedsTextByViewport ==
  LaidOut =>
    /\ REq(RSub(totalHeight, RInt(height)), paddedTextHeight)
    /\ RLe(RInt(paddingY * 2), RSub(totalHeight, RInt(height)))
    /\ REq(RAdd(finalOffset(totalHeight), RInt(height)), totalHeight)

\* a laid-out script of several lines that is shorter than one viewport
C23_Witness ==
  /\ LaidOut
  /\ Len(wrappedLines) >= 3
  /\ RLt(paddedTextHeight, RInt(height))

\* the times at which the crop window is inspected
CropTimes == SampleTimes(timeline, duration) \cup EarlyTimes \cup LateTimes

\* the crop window at offset y lies inside the image
InsideImage(y) == RLe(RInt(0), y) /\ RLe(RAdd(y, RInt(height)), totalHeight)

\* C28: for every script, every audio duration and every t >= 0 the crop
\* offset y satisfies 0 <= y and y + viewportHeight <= totalImageHeight
\* (checked at all sample times and at the end of every window).
C28_CropWindowInsideImage ==
  ExprJustBuilt =>
    /\ \A t \in CropTimes : InsideImage(positionAt(timeline, t))
    /\ \A i \in 1..Len(timeline.pieces) :
         RLt(timeline.pieces[i].t0, timeline.pieces[i].bound) =>
           InsideImage(leftLimit(timeline.pieces[i]))

\* an expression that scrolls: some sampled offset lies strictly between
\* the top padding and the final offset
C28_Witness ==
  /\ ExprJustBuilt
  /\ \E t \in CropTimes :
       /\ RLt(RInt(paddingY), positionAt(timeline, t))
       /\ RLt(positionAt(timeline, t), timeline.final)

RECURSIVE Flatten(_)
Flatten(seqs) == IF seqs = <<>> THEN <<>> ELSE Head(seqs) \o Flatten(Tail(seqs))

\* the source lines of a script, paragraph by paragraph
ParagraphLines(s) ==
  LET paras == SplitParagraphs(s)
  IN  Flatten([i \in 1..Len(paras) |-> SplitOn(paras[i], NL)])

IsNonEmpty(w) == w # <<>>

\* the non-empty words of a line
nonEmptyWords(line) == SelectSeq(SplitOn(line, SP), IsNonEmpty)

\* the non-empty words of a list of lines, in reading order
WordsOfLines(lines) == Flatten([i \in 1..Len(lines) |-> nonEmptyWords(lines[i])])

\* C29: wrapping a non-blank source line never emits an empty wrapped line;
\* the only empty wrapped lines are those pushed for blank source lines and
\* the two pushed at each paragraph boundary.
C29_NoEmptyLineFromWords ==
  LaidOut =>
    /\ \A i \in 1..Len(ParagraphLines(script)) :
         LET line == ParagraphLines(script)[i]
         IN  ~IsBlank(line) =>
               \A k \in 1..Len(WrapLine(line)) : WrapLine(line)[k] # <<>>
    /\ CountEmpty(wrappedLines) =
         CountBlank(ParagraphLines(script)) + 2 * (Len(SplitParagraphs(script)) - 1)

\* C30: the non-empty words read from the wrapped lines in order are the
\* non-empty words of the source lines in order, for every source line and
\* for the script as a whole.
C30_WrapKeepsWords ==
  LaidOut =>
    /\ \A i \in 1..Len(ParagraphLines(script)) :
         LET line == ParagraphLines(script)[i]
         IN  ~IsBlank(line) => WordsOfLines(WrapLine(line)) = nonEmptyWords(line)
    /\ WordsOfLines(wrappedLines) = WordsOfLines(ParagraphLines(script))

\* a source line of several words that the wrap breaks into several lines
C30_Witness ==
  /\ LaidOut
  /\ \E i \in 1..Len(ParagraphLines(script)) :
       LET line == ParagraphLines(script)[i]
       IN  /\ Len(nonEmptyWords(line)) >= 2
           /\ Len(WrapLine(line)) >= 2
  /\ Len(WordsOfLines(wrappedLines)) >= 2

\* the notifications that announce the completion of the job
CompletedNotices == { <<"webhook", "completed">>, <<"ws", "completed">> }

Noticed(kinds) == \E i \in 1..Len(notices) : notices[i] \in kinds

\* C24: every job that POST /api/generate has put into status 'generating'
\* ends with the stored status 'completed' or 'failed', whether the
\* background generation succeeds or throws (stated on the final state of
\* the background processing).
C24_JobReachesFinalStatus ==
  rpc = "BackgroundDone" => jobStatus \in {"completed", "failed"}

\* C26: a job whose status is 'completed' has a stored video, and no
\* 'completed' webhook or completion event is sent before the video is
\* stored and the status is 'completed'.
C26_CompletedOnlyAfterStore ==
  /\ jobStatus = "completed" => storedVideo
  /\ Noticed(CompletedNotices) => (storedVideo /\ jobStatus = "completed")

\* the job completed and both notifications went out
C26_Witness ==
  /\ rpc = "BackgroundDone"
  /\ jobStatus = "completed"
  /\ storedVideo
  /\ Noticed({<<"webhook", "completed">>})
  /\ Noticed({<<"ws", "completed">>})

\* C27: when deductUserPoints reports insufficient credits the handler
\* answers 402 and stops: no job is created, no status is written, no
\* webhook or event is sent and no background generation is scheduled.
C27_InsufficientCreditsNoEffect ==
  response = 402 =>
    /\ rpc = "HandlerDone"
    /\ jobStatus = "none"
    /\ storedVideo = FALSE
    /\ notices = <<>>
    /\ scheduled = FALSE

\* a valid request of a user with too few credits has been answered
C27_Witness ==
  /\ response = 402
  /\ rpc = "HandlerDone"
  /\ req.script = "ok"
  /\ req.walletAddress = "ok"
  /\ balance < VIDEO_COST

\* C25: generateNarrativeVideoBuffer has removed every temporary file and
\* directory it created on every exit path, also when frame rendering, the
\* audio probe or an ffmpeg run fails.
C25_NarrativeTempRemoved ==
  npc \in {"Done", "Failed"} => nfiles = {}

====
